---- MODULE Spec2Model ----
(***************************************************************************)
(* The guest-process completion bridge of aiovix (aiovix/VixVM.py):        *)
(* the process-wide registry _proc_jobs of _ProcJob records guarded by     *)
(* _proc_jobs_lock, the callers VixVM.proc_run / VixVM.run_script, the     *)
(* native callback _callback_handler and _ProcJob.wait.                    *)
(*                                                                         *)
(* Threads take one step at a time.  A step is a statement of the source   *)
(* that reads or writes shared state, together with the thread-local       *)
(* statements before it; a lookup or removal made under the lock is one    *)
(* step, the registration under the lock is three.                         *)
(***************************************************************************)
EXTENDS Integers, Sequences, FiniteSets, TLC

(* ------------------------------ bounds -------------------------------- *)

\* Number of threads that each call proc_run / run_script once.
NumCallers == 2

\* Number of native threads that can be inside _callback_handler at once.
NumHandlers == 2

\* Number of extra tasks that await _ProcJob.wait() on a record.
NumWaiters == 1

\* Number of stray events a misbehaving runtime delivers.
MaxStrays == 1

Callers  == 1..NumCallers
Handlers == 1..NumHandlers
Waiters  == 1..NumWaiters

(* --------------------------- program values --------------------------- *)

\* Python's None (the class attributes pid, exit_code, elapsed_time).
None == -1

\* VIX_EVENTTYPE_JOB_COMPLETED and VIX_EVENTTYPE_JOB_PROGRESS.
VIX_EVENTTYPE_JOB_COMPLETED == 2
VIX_EVENTTYPE_JOB_PROGRESS == 3

\* An event type the handler does not know (any value other than 2 and 3).
OtherEventType == 1
EventTypes == {OtherEventType, VIX_EVENTTYPE_JOB_COMPLETED, VIX_EVENTTYPE_JOB_PROGRESS}

\* The result properties of the native job of call c: what the guest
\* reports for that process.  They differ from call to call, so that a value
\* that reaches the wrong record shows; the first call's process id is 0.
ProcessId(c)   == 10 * (c - 1)
ExitCode(c)    == c - 1
ElapsedTime(c) == 500 * c

\* What a stray completion event can report: a process id, an exit code and
\* an elapsed time that no job of this program has.
StrayPids    == {10 * NumCallers}
StrayExit    == 7
StrayElapsed == 700

\* No thread holds the lock / by_id found nothing / event without a job handle.
NoThread == <<"none", 0>>
NoJob    == 0
NoHandle == 0

CallerId(c)  == <<"caller", c>>
HandlerId(h) == <<"handler", h>>

\* A freshly constructed _ProcJob before __init__ has assigned _id:
\* class attributes None, a new Event (unset).
NewProcJob == [id |-> None, pid |-> None, exit_code |-> None,
               elapsed_time |-> None, done_evt |-> FALSE]

\* A native job that has not been created yet.
NoNativeJob == [state |-> "none", token |-> None, pid |-> None,
                exit_code |-> None, elapsed_time |-> None, delivered |-> FALSE]

\* A token no record ever has: _idx starts at 1 and only grows.
UnknownToken == 0

\* The keys _proc_jobs can get: __init__ hands out 1, 2, ... one per call.
Tokens == 1..NumCallers

VARIABLES
    lock,        \* _proc_jobs_lock: NoThread or the thread that acquired it
    idx,         \* _idx
    proc_jobs,   \* _proc_jobs: token -> record (the caller that built it)
    jobs,        \* the _ProcJob objects, one per caller
    assigned,    \* history: the tokens in the order __init__ assigned them
    cpc,         \* position of each caller in proc_run / run_script
    should_block,\* the should_block argument of each call
    cpid,        \* the local pid of proc_run
    result,      \* the Process tuple each call returned
    njob,        \* the native job of each call
    hpc,         \* position of each native thread in _callback_handler
    hloc,        \* locals of _callback_handler: a, event_type, job_id, job, props
    wrec,        \* the record each extra waiter waits on, if any
    strays,      \* number of stray events delivered so far
    running,     \* the task the event loop's thread is running, if any
    power_state, \* the power state flags of the virtual machine
    pjob,        \* the native job of the power operation under way
    ptask,       \* the task that calls the power operations
    tools,       \* the last call of install_tools and its native options
    wrappers,    \* the handle wrappers built so far, in order of construction
    releases,    \* per native handle, the number of native releases
    acquired,    \* per native handle, the number of times the program got it
    sop,         \* the snapshot operation under way
    lop          \* the last guest listing operation and its result

vars == <<lock, idx, proc_jobs, jobs, assigned, cpc, should_block,
          cpid, result, njob, hpc, hloc, wrec, strays,
          running, power_state, pjob, ptask, tools,
          wrappers, releases, acquired, sop, lop>>

handleVars == <<wrappers, releases, acquired, sop>>
listVars == <<lop>>

loopVars == <<running>>
vmVars == <<power_state, pjob, ptask, tools>>

callerVars  == <<cpc, should_block, cpid, result>>
handlerVars == <<hpc, hloc>>
waiterVars  == <<wrec>>
registryVars == <<lock, idx, proc_jobs, jobs, assigned>>
bridgeVars == <<registryVars, callerVars, njob, handlerVars, waiterVars, strays>>

\* No task: the event loop's thread is idle.
NoTask == 0

\* VixVM.VIX_POWERSTATE_*: the bits of the power state property
VIX_POWERSTATE_POWERING_OFF == 1
VIX_POWERSTATE_POWERED_OFF == 2
VIX_POWERSTATE_POWERING_ON == 4
VIX_POWERSTATE_POWERED_ON == 8
VIX_POWERSTATE_SUSPENDING == 16
VIX_POWERSTATE_SUSPENDED == 32
VIX_POWERSTATE_RESETTING == 128
VIX_POWERSTATE_PAUSED == 512

\* VixVM._VIX_INSTALLTOOLS_*: the bits of the options of VixVM_InstallTools
VIX_INSTALLTOOLS_AUTO_UPGRADE == 1
VIX_INSTALLTOOLS_RETURN_IMMEDIATELY == 2

\* The asynchronous power operations of VixVM.
PowerOps == {"pause", "unpause", "suspend", "power_on", "power_off", "reset"}

NoPowerJob == [state |-> "none", op |-> "none", before |-> {}, error |-> FALSE]
IdleTask == [pc |-> "idle", seen |-> {}]
NoToolsCall == [called |-> FALSE, auto_upgrade |-> FALSE, blocking |-> FALSE,
                options |-> 0]

NoLocals == [a |-> NoHandle, event_type |-> 0, job_id |-> 0, job |-> NoJob,
             props |-> <<None, None, None>>]

NoResult == <<None, None, None>>

\* The fields a reader of record r finds: pid, exit_code, elapsed_time.
Fields(r) == <<jobs[r].pid, jobs[r].exit_code, jobs[r].elapsed_time>>

(* ------------- values of the handle wrappers and listings ------------- *)

MaxWrappers == 3

VIX_OK == 0
VIX_E_FAIL == 1
VIX_E_OUT_OF_MEMORY == 2
ErrorCodes == {VIX_OK, VIX_E_FAIL, VIX_E_OUT_OF_MEMORY}

VmHandle == 1
RootSnapshot == 2
ChildSnapshot == 3
Snapshots == {RootSnapshot, ChildSnapshot}
NativeHandles == {VmHandle} \cup Snapshots
AnyHandle == NativeHandles \cup {NoHandle}

\* VixHandle.get_type: the native type tag of a handle.
GetType(h) ==
    IF h = VmHandle THEN "VM"
    ELSE IF h \in Snapshots THEN "SNAPSHOT"
    ELSE "NONE"

\* VixSnapshot_GetParent: the parent of the root is a handle of type NONE.
NativeParent(h) == IF h = ChildSnapshot THEN RootSnapshot ELSE NoHandle

VmOps == {"snapshot_get_current", "snapshot_get_named",
          "snapshots_get_root_count", "snapshot_get_root"}
SnapshotOps == {"get_num_children", "get_child", "get_parent"}
SnapOps == VmOps \cup SnapshotOps
CountOps == {"snapshots_get_root_count", "get_num_children"}

\* What the native call of op hands back on success, for a wrapper of h.
NativeOut(op, h) ==
    CASE op \in {"snapshot_get_current", "snapshot_get_named"} -> Snapshots
      [] op = "snapshot_get_root" -> {RootSnapshot}
      [] op = "snapshots_get_root_count" -> {1}
      [] op = "get_num_children" -> {IF h = RootSnapshot THEN 1 ELSE 0}
      [] op = "get_child" -> IF h = RootSnapshot THEN {ChildSnapshot} ELSE {}
      [] op = "get_parent" -> {NativeParent(h)}

NoSnapOp == [op |-> "none", self |-> 0, pc |-> "idle", code |-> VIX_OK,
             calls |-> 0, out |-> NoHandle, temp |-> 0,
             outcome |-> "none", value |-> None]

MaxRows == 2

NoListOp == [op |-> "none", rows |-> << >>, code |-> VIX_OK,
             outcome |-> "none", value |-> << >>]

Init ==
    /\ lock = NoThread
    /\ idx = 1
    /\ proc_jobs = [t \in Tokens |-> NoJob]
    /\ jobs = [c \in Callers |-> NewProcJob]
    /\ assigned = << >>
    /\ cpc = [c \in Callers |-> "idle"]
    /\ should_block = [c \in Callers |-> FALSE]
    /\ cpid = [c \in Callers |-> None]
    /\ result = [c \in Callers |-> NoResult]
    /\ njob = [c \in Callers |-> NoNativeJob]
    /\ hpc = [h \in Handlers |-> "idle"]
    /\ hloc = [h \in Handlers |-> NoLocals]
    /\ wrec = [w \in Waiters |-> NoJob]
    /\ strays = 0
    /\ running = NoTask
    /\ power_state = {VIX_POWERSTATE_POWERED_ON}
    /\ pjob = NoPowerJob
    /\ ptask = IdleTask
    /\ tools = NoToolsCall
    /\ wrappers = << >>
    /\ releases = [h \in AnyHandle |-> 0]
    /\ acquired = [h \in AnyHandle |-> 0]
    /\ sop = NoSnapOp
    /\ lop = NoListOp

\* _proc_jobs.get(id): the record stored under id, or nothing
DictGet(d, k) == IF k \in Tokens THEN d[k] ELSE NoJob

\* id is a key of _proc_jobs
Registered(t) == DictGet(proc_jobs, t) # NoJob

(* ------------------- _ProcJob.__init__ (lines 39-50) ------------------ *)

\* Mutant of LockFree: acquire never blocks, as if __init__ took no lock.
LockFree_NeverBlocks == TRUE

\* _proc_jobs_lock.acquire(blocking=True) blocks while the lock is taken
LockFree == lock = NoThread

\* _ProcJob() has returned the record of call c to its caller
Constructed(c) == cpc[c] \notin {"idle", "init_id", "init_incr"}

\* proc_run(..., should_block) is called and _ProcJob() starts:
\* self._done_evt = Event(); _proc_jobs_lock.acquire(blocking=True)
Call(c) ==
    /\ cpc[c] = "idle"
    /\ \A b \in Callers : b < c => cpc[b] # "idle"
    /\ LockFree
    /\ lock' = CallerId(c)
    /\ \E b \in BOOLEAN : should_block' = [should_block EXCEPT ![c] = b]
    /\ jobs' = [jobs EXCEPT ![c] = NewProcJob]
    /\ cpc' = [cpc EXCEPT ![c] = "init_id"]
    /\ UNCHANGED <<idx, proc_jobs, assigned, cpid, result, njob, strays>>
    /\ UNCHANGED <<handlerVars, waiterVars>>
    /\ UNCHANGED <<loopVars, vmVars, handleVars, listVars>>

\* self._id = _idx
InitSetId(c) ==
    /\ cpc[c] = "init_id"
    /\ jobs' = [jobs EXCEPT ![c].id = idx]
    /\ assigned' = Append(assigned, idx)
    /\ cpc' = [cpc EXCEPT ![c] = "init_incr"]
    /\ UNCHANGED <<lock, idx, proc_jobs, should_block, cpid, result, njob, strays>>
    /\ UNCHANGED <<handlerVars, waiterVars>>
    /\ UNCHANGED <<loopVars, vmVars, handleVars, listVars>>

\* Mutant of InitInsert: __init__ returns without releasing the lock.
InitInsert_NoRelease(c) ==
    /\ cpc[c] = "init_incr"
    /\ idx' = idx + 1
    /\ proc_jobs' = [proc_jobs EXCEPT ![jobs[c].id] = c]
    /\ cpc' = [cpc EXCEPT ![c] = "native_call"]
    /\ UNCHANGED <<lock, jobs, assigned, should_block, cpid, result, njob, strays>>
    /\ UNCHANGED <<handlerVars, waiterVars>>
    /\ UNCHANGED <<loopVars, vmVars, handleVars, listVars>>

\* Mutant of InitInsert: the record is not put into _proc_jobs.
InitInsert_NoInsert(c) ==
    /\ cpc[c] = "init_incr"
    /\ idx' = idx + 1
    /\ lock' = NoThread
    /\ cpc' = [cpc EXCEPT ![c] = "native_call"]
    /\ UNCHANGED <<proc_jobs, jobs, assigned, should_block, cpid, result, njob, strays>>
    /\ UNCHANGED <<handlerVars, waiterVars>>
    /\ UNCHANGED <<loopVars, vmVars, handleVars, listVars>>

\* _idx += 1; _proc_jobs[self._id] = self; _proc_jobs_lock.release()
InitInsert(c) ==
    /\ cpc[c] = "init_incr"
    /\ idx' = idx + 1
    /\ proc_jobs' = [proc_jobs EXCEPT ![jobs[c].id] = c]
    /\ lock' = NoThread
    /\ cpc' = [cpc EXCEPT ![c] = "native_call"]
    /\ UNCHANGED <<jobs, assigned, should_block, cpid, result, njob, strays>>
    /\ UNCHANGED <<handlerVars, waiterVars>>
    /\ UNCHANGED <<loopVars, vmVars, handleVars, listVars>>

(* --------------- VixVM.proc_run / VixVM.run_script --------------------- *)
(* run_script (lines 912-941) is statement for statement proc_run          *)
(* (lines 878-910) with VixVM_RunScriptInGuest as the native call.         *)

\* vix.VixVM_RunProgramInGuest(..., _callback_handler, pj.id()): the native
\* job is created and the runtime holds the callback and the token.
NativeCall(c) ==
    /\ cpc[c] = "native_call"
    /\ njob' = [njob EXCEPT ![c] = [NoNativeJob EXCEPT !.state = "running",
                                                        !.token = jobs[c].id]]
    /\ cpc' = [cpc EXCEPT ![c] = "job_wait"]
    /\ UNCHANGED <<registryVars, should_block, cpid, result, strays>>
    /\ UNCHANGED <<handlerVars, waiterVars>>
    /\ UNCHANGED <<loopVars, vmVars, handleVars, listVars>>

\* VixJob.wait_async(...) completes once the native runtime has marked the
\* job done.
JobIsDone(c) == njob[c].state = "done"

\* Mutant of SetPid: the caller stores another number than the process id
\* the job wait returned.
SetPid_WritesOther(c) ==
    /\ cpc[c] = "job_wait"
    /\ JobIsDone(c)
    /\ should_block[c]
    /\ cpid' = [cpid EXCEPT ![c] = njob[c].pid]
    /\ jobs' = [jobs EXCEPT ![c].pid = njob[c].pid + 1]
    /\ cpc' = [cpc EXCEPT ![c] = "wait"]
    /\ UNCHANGED <<lock, idx, proc_jobs, assigned, should_block, result, njob, strays>>
    /\ UNCHANGED <<handlerVars, waiterVars>>
    /\ UNCHANGED <<loopVars, vmVars, handleVars, listVars>>

\* pid = await VixJob(job).wait_async(VIX_PROPERTY_JOB_RESULT_PROCESS_ID)
\* if should_block: pj.pid = pid
SetPid(c) ==
    /\ cpc[c] = "job_wait"
    /\ JobIsDone(c)
    /\ should_block[c]
    /\ cpid' = [cpid EXCEPT ![c] = njob[c].pid]
    /\ jobs' = [jobs EXCEPT ![c].pid = njob[c].pid]
    /\ cpc' = [cpc EXCEPT ![c] = "wait"]
    /\ UNCHANGED <<lock, idx, proc_jobs, assigned, should_block, result, njob, strays>>
    /\ UNCHANGED <<handlerVars, waiterVars>>
    /\ UNCHANGED <<loopVars, vmVars, handleVars, listVars>>

\* Mutant of ReturnImmediately: the non-blocking branch waits for the
\* record's signal and returns the record's fields, as the blocking branch
\* is meant to.
ReturnImmediately_ReadsRecord(c) ==
    /\ cpc[c] = "job_wait"
    /\ JobIsDone(c)
    /\ ~should_block[c]
    /\ jobs[c].done_evt
    /\ cpid' = [cpid EXCEPT ![c] = njob[c].pid]
    /\ result' = [result EXCEPT ![c] = <<njob[c].pid, jobs[c].exit_code,
                                          jobs[c].elapsed_time>>]
    /\ cpc' = [cpc EXCEPT ![c] = "returned"]
    /\ UNCHANGED <<registryVars, should_block, njob, strays>>
    /\ UNCHANGED <<handlerVars, waiterVars>>
    /\ UNCHANGED <<loopVars, vmVars, handleVars, listVars>>

\* pid = await VixJob(job).wait_async(VIX_PROPERTY_JOB_RESULT_PROCESS_ID)
\* else: return Process(pid, None, None)
ReturnImmediately(c) ==
    /\ cpc[c] = "job_wait"
    /\ JobIsDone(c)
    /\ ~should_block[c]
    /\ cpid' = [cpid EXCEPT ![c] = njob[c].pid]
    /\ result' = [result EXCEPT ![c] = <<njob[c].pid, None, None>>]
    /\ cpc' = [cpc EXCEPT ![c] = "returned"]
    /\ UNCHANGED <<registryVars, should_block, njob, strays>>
    /\ UNCHANGED <<handlerVars, waiterVars>>
    /\ UNCHANGED <<loopVars, vmVars, handleVars, listVars>>

\* Mutant of WaitReturns: wait is the first definition of the class body
\* (lines 63-64), self._done_evt.wait(), which blocks until the signal is set.
WaitReturns_WhenSet(r) == jobs[r].done_evt

\* What a call of _ProcJob.wait on record r needs before it returns.  The
\* class body defines wait twice (lines 63-64, then 66-68) and the second
\* definition replaces the first: wait is the coroutine function.  Calling it
\* builds a coroutine object and runs none of its body; awaiting it runs
\* asyncio.to_thread(self.wait), whose thread again only builds a coroutine
\* object.  self._done_evt.wait() is reached on neither path, so the state
\* of the record's signal does not matter.
WaitReturns(r) == jobs[r].done_evt \/ ~jobs[r].done_evt

\* pj.wait(); return Process(pid, pj.exit_code, pj.elapsed_time): the call
\* of wait returns and pj.exit_code is read
Wait(c) ==
    /\ cpc[c] = "wait"
    /\ WaitReturns(c)
    /\ result' = [result EXCEPT ![c] = <<cpid[c], jobs[c].exit_code, None>>]
    /\ cpc' = [cpc EXCEPT ![c] = "read_elapsed_time"]
    /\ UNCHANGED <<registryVars, should_block, cpid, njob, strays>>
    /\ UNCHANGED <<handlerVars, waiterVars>>
    /\ UNCHANGED <<loopVars, vmVars, handleVars, listVars>>

\* return Process(pid, pj.exit_code, pj.elapsed_time): pj.elapsed_time is
\* read and the call returns
ReturnBlocking(c) ==
    /\ cpc[c] = "read_elapsed_time"
    /\ result' = [result EXCEPT ![c] = <<cpid[c], result[c][2], jobs[c].elapsed_time>>]
    /\ cpc' = [cpc EXCEPT ![c] = "returned"]
    /\ UNCHANGED <<registryVars, should_block, cpid, njob, strays>>
    /\ UNCHANGED <<handlerVars, waiterVars>>
    /\ UNCHANGED <<loopVars, vmVars, handleVars, listVars>>

(* ------------------------- the native runtime ------------------------- *)

\* The guest program has run: the job is done and its result properties
\* (process id, exit code, elapsed time) are fixed.
NativeJobDone(c) ==
    /\ njob[c].state = "running"
    /\ njob' = [njob EXCEPT ![c].state = "done",
                            ![c].pid = ProcessId(c),
                            ![c].exit_code = ExitCode(c),
                            ![c].elapsed_time = ElapsedTime(c)]
    /\ UNCHANGED <<registryVars, callerVars, handlerVars, waiterVars, strays>>
    /\ UNCHANGED <<loopVars, vmVars, handleVars, listVars>>

\* The runtime calls _callback_handler(a, event_type, props, d) on one of
\* its threads (the idle one of lowest number): handle = VixHandle(a);
\* job_id = int(ffi.cast('size_t', d)).
Enter(h, a, event_type, d) ==
    /\ hpc[h] = "idle"
    /\ \A g \in Handlers : g < h => hpc[g] # "idle"
    /\ hloc' = [hloc EXCEPT ![h] = [NoLocals EXCEPT !.a = a,
                                       !.event_type = event_type, !.job_id = d]]
    /\ hpc' = [hpc EXCEPT ![h] = "by_id"]

\* A progress event of a job that is still running.
DeliverProgress(h, c) ==
    /\ njob[c].state = "running"
    /\ Enter(h, c, VIX_EVENTTYPE_JOB_PROGRESS, njob[c].token)
    /\ UNCHANGED <<registryVars, callerVars, njob, waiterVars, strays>>
    /\ UNCHANGED <<loopVars, vmVars, handleVars, listVars>>

\* The completion event of a job that is done, delivered once.
DeliverCompleted(h, c) ==
    /\ njob[c].state = "done"
    /\ ~njob[c].delivered
    /\ njob' = [njob EXCEPT ![c].delivered = TRUE]
    /\ Enter(h, c, VIX_EVENTTYPE_JOB_COMPLETED, njob[c].token)
    /\ UNCHANGED <<registryVars, callerVars, waiterVars, strays>>
    /\ UNCHANGED <<loopVars, vmVars, handleVars, listVars>>

\* The tokens a misbehaving runtime can send: those it was given in a
\* native call, and one it was never given.
StrayTokens == {njob[c].token : c \in {b \in Callers : njob[b].state # "none"}}
                   \cup {UnknownToken}

\* A runtime that breaks its contract: an event of any type, at any time, for
\* a token it was given or for an unknown one (a repeated or early
\* completion, an unknown token, an unknown type), on a handle that is no
\* job of this program.
DeliverStray(h, t, event_type) ==
    /\ strays < MaxStrays
    /\ strays' = strays + 1
    /\ Enter(h, NoHandle, event_type, t)
    /\ UNCHANGED <<registryVars, callerVars, njob, waiterVars>>
    /\ UNCHANGED <<loopVars, vmVars, handleVars, listVars>>

(* ------------- _callback_handler (lines 1245-1275) --------------------- *)

\* The handler on thread h leaves, by a return or by a raise.
Leave(h) ==
    /\ hpc' = [hpc EXCEPT ![h] = "idle"]
    /\ hloc' = [hloc EXCEPT ![h] = NoLocals]

\* Mutant of ById: the lookup goes through every record ever built, so a
\* record that was removed from _proc_jobs is still found.
ById_FindsRemoved(id) ==
    IF \E c \in Callers : jobs[c].id = id
    THEN CHOOSE c \in Callers : jobs[c].id = id
    ELSE NoJob

\* job = _ProcJob.by_id(job_id): acquire, _proc_jobs.get(id), release.  The
\* entry stays in the dict.
ById(id) == DictGet(proc_jobs, id)

\* job = _ProcJob.by_id(job_id)
\* if not job: raise ValueError('Got callback event for non-existent job')
RaiseNoJob(h) ==
    /\ hpc[h] = "by_id"
    /\ LockFree
    /\ ById(hloc[h].job_id) = NoJob
    /\ Leave(h)
    /\ UNCHANGED <<registryVars, callerVars, njob, waiterVars, strays>>
    /\ UNCHANGED <<loopVars, vmVars, handleVars, listVars>>

\* Mutant of Progress: a progress event removes the record from the
\* registry, as a completion does.
Progress_Removes(h) ==
    /\ hpc[h] = "by_id"
    /\ LockFree
    /\ ById(hloc[h].job_id) # NoJob
    /\ hloc[h].event_type = VIX_EVENTTYPE_JOB_PROGRESS
    /\ proc_jobs' = [proc_jobs EXCEPT ![hloc[h].job_id] = NoJob]
    /\ Leave(h)
    /\ UNCHANGED <<lock, idx, jobs, assigned>>
    /\ UNCHANGED <<callerVars, njob, waiterVars, strays>>
    /\ UNCHANGED <<loopVars, vmVars, handleVars, listVars>>

\* job = _ProcJob.by_id(job_id), found
\* if event_type == VIX_EVENTTYPE_JOB_PROGRESS: pass
Progress(h) ==
    /\ hpc[h] = "by_id"
    /\ LockFree
    /\ ById(hloc[h].job_id) # NoJob
    /\ hloc[h].event_type = VIX_EVENTTYPE_JOB_PROGRESS
    /\ Leave(h)
    /\ UNCHANGED <<registryVars, callerVars, njob, waiterVars, strays>>
    /\ UNCHANGED <<loopVars, vmVars, handleVars, listVars>>

\* Mutant of RaiseUnexpected: the final else is missing, and an event of
\* any other type is handled as a completion.
RaiseUnexpected_AsCompleted(h) ==
    /\ hpc[h] = "by_id"
    /\ LockFree
    /\ ById(hloc[h].job_id) # NoJob
    /\ hloc[h].event_type \notin {VIX_EVENTTYPE_JOB_PROGRESS, VIX_EVENTTYPE_JOB_COMPLETED}
    /\ \E p \in StrayPids :
          hloc' = [hloc EXCEPT ![h].job = ById(hloc[h].job_id),
                               ![h].props = <<p, StrayExit, StrayElapsed>>]
    /\ hpc' = [hpc EXCEPT ![h] = "check_pid"]
    /\ UNCHANGED <<registryVars, callerVars, njob, waiterVars, strays>>
    /\ UNCHANGED <<loopVars, vmVars, handleVars, listVars>>

\* job = _ProcJob.by_id(job_id), found
\* else: raise ValueError(f"Unexpected VIX_EVENTTYPE_JOB ({event_type})")
RaiseUnexpected(h) ==
    /\ hpc[h] = "by_id"
    /\ LockFree
    /\ ById(hloc[h].job_id) # NoJob
    /\ hloc[h].event_type \notin {VIX_EVENTTYPE_JOB_PROGRESS, VIX_EVENTTYPE_JOB_COMPLETED}
    /\ Leave(h)
    /\ UNCHANGED <<registryVars, callerVars, njob, waiterVars, strays>>
    /\ UNCHANGED <<loopVars, vmVars, handleVars, listVars>>

\* handle.get_properties(PROCESS_ID, EXIT_CODE, ELAPSED_TIME) on the handle
\* of a job of this program: the job's result properties.
JobProperties(a) == <<njob[a].pid, njob[a].exit_code, njob[a].elapsed_time>>

\* job = _ProcJob.by_id(job_id), found
\* elif event_type == VIX_EVENTTYPE_JOB_COMPLETED:
\*     props = handle.get_properties(...)
GetProperties(h) ==
    /\ hpc[h] = "by_id"
    /\ LockFree
    /\ ById(hloc[h].job_id) # NoJob
    /\ hloc[h].event_type = VIX_EVENTTYPE_JOB_COMPLETED
    /\ hloc[h].a # NoHandle
    /\ hloc' = [hloc EXCEPT ![h].job = ById(hloc[h].job_id),
                            ![h].props = JobProperties(hloc[h].a)]
    /\ hpc' = [hpc EXCEPT ![h] = "check_pid"]
    /\ UNCHANGED <<registryVars, callerVars, njob, waiterVars, strays>>
    /\ UNCHANGED <<loopVars, vmVars, handleVars, listVars>>

\* The same on the handle of a stray event: whatever the runtime reports.
GetPropertiesStray(h) ==
    /\ hpc[h] = "by_id"
    /\ LockFree
    /\ ById(hloc[h].job_id) # NoJob
    /\ hloc[h].event_type = VIX_EVENTTYPE_JOB_COMPLETED
    /\ hloc[h].a = NoHandle
    /\ \E p \in StrayPids :
          hloc' = [hloc EXCEPT ![h].job = ById(hloc[h].job_id),
                               ![h].props = <<p, StrayExit, StrayElapsed>>]
    /\ hpc' = [hpc EXCEPT ![h] = "check_pid"]
    /\ UNCHANGED <<registryVars, callerVars, njob, waiterVars, strays>>
    /\ UNCHANGED <<loopVars, vmVars, handleVars, listVars>>

\* The same with the fetch failing, on the handle of a job or of a stray
\* event: get_properties raises VixError.
GetPropertiesFails(h) ==
    /\ hpc[h] = "by_id"
    /\ LockFree
    /\ ById(hloc[h].job_id) # NoJob
    /\ hloc[h].event_type = VIX_EVENTTYPE_JOB_COMPLETED
    /\ Leave(h)
    /\ UNCHANGED <<registryVars, callerVars, njob, waiterVars, strays>>
    /\ UNCHANGED <<loopVars, vmVars, handleVars, listVars>>

\* Python truth of job.pid in "if job.pid:": None and 0 are false.
Truthy(v) == v # None /\ v # 0

\* "if job.pid:" holds and the assert fails
PidHasChanged(h) ==
    /\ Truthy(jobs[hloc[h].job].pid)
    /\ jobs[hloc[h].job].pid # hloc[h].props[1]

\* if job.pid: assert job.pid == props[0], 'job pid has changed' (passes)
\* job.pid = props[0]
WritePid(h) ==
    /\ hpc[h] = "check_pid"
    /\ ~PidHasChanged(h)
    /\ jobs' = [jobs EXCEPT ![hloc[h].job].pid = hloc[h].props[1]]
    /\ hpc' = [hpc EXCEPT ![h] = "write_exit_code"]
    /\ UNCHANGED <<lock, idx, proc_jobs, assigned, hloc>>
    /\ UNCHANGED <<callerVars, njob, waiterVars, strays>>
    /\ UNCHANGED <<loopVars, vmVars, handleVars, listVars>>

\* if job.pid: assert job.pid == props[0], 'job pid has changed' (fails)
RaisePidChanged(h) ==
    /\ hpc[h] = "check_pid"
    /\ PidHasChanged(h)
    /\ Leave(h)
    /\ UNCHANGED <<registryVars, callerVars, njob, waiterVars, strays>>
    /\ UNCHANGED <<loopVars, vmVars, handleVars, listVars>>

\* Mutant of WriteExitCode: the exit code is stored in every record.
WriteExitCode_AllRecords(h) ==
    /\ hpc[h] = "write_exit_code"
    /\ jobs' = [c \in Callers |-> [jobs[c] EXCEPT !.exit_code = hloc[h].props[2]]]
    /\ hpc' = [hpc EXCEPT ![h] = "write_elapsed_time"]
    /\ UNCHANGED <<lock, idx, proc_jobs, assigned, hloc>>
    /\ UNCHANGED <<callerVars, njob, waiterVars, strays>>
    /\ UNCHANGED <<loopVars, vmVars, handleVars, listVars>>

\* Mutant of WriteExitCode: the exit code is not stored.
WriteExitCode_Skipped(h) ==
    /\ hpc[h] = "write_exit_code"
    /\ hpc' = [hpc EXCEPT ![h] = "write_elapsed_time"]
    /\ UNCHANGED <<registryVars, hloc>>
    /\ UNCHANGED <<callerVars, njob, waiterVars, strays>>
    /\ UNCHANGED <<loopVars, vmVars, handleVars, listVars>>

\* job.exit_code = props[1]
WriteExitCode(h) ==
    /\ hpc[h] = "write_exit_code"
    /\ jobs' = [jobs EXCEPT ![hloc[h].job].exit_code = hloc[h].props[2]]
    /\ hpc' = [hpc EXCEPT ![h] = "write_elapsed_time"]
    /\ UNCHANGED <<lock, idx, proc_jobs, assigned, hloc>>
    /\ UNCHANGED <<callerVars, njob, waiterVars, strays>>
    /\ UNCHANGED <<loopVars, vmVars, handleVars, listVars>>

\* job.elapsed_time = props[2]
WriteElapsedTime(h) ==
    /\ hpc[h] = "write_elapsed_time"
    /\ jobs' = [jobs EXCEPT ![hloc[h].job].elapsed_time = hloc[h].props[3]]
    /\ hpc' = [hpc EXCEPT ![h] = "pop"]
    /\ UNCHANGED <<lock, idx, proc_jobs, assigned, hloc>>
    /\ UNCHANGED <<callerVars, njob, waiterVars, strays>>
    /\ UNCHANGED <<loopVars, vmVars, handleVars, listVars>>

\* Mutant of Pop: the handler empties the registry, as _proc_jobs.clear()
\* would.
Pop_Clears(h) ==
    /\ hpc[h] = "pop"
    /\ LockFree
    /\ Registered(hloc[h].job_id)
    /\ proc_jobs' = [t \in Tokens |-> NoJob]
    /\ hpc' = [hpc EXCEPT ![h] = "set_done"]
    /\ UNCHANGED <<lock, idx, jobs, assigned, hloc>>
    /\ UNCHANGED <<callerVars, njob, waiterVars, strays>>
    /\ UNCHANGED <<loopVars, vmVars, handleVars, listVars>>

\* Mutant of Pop: the handler goes on to set the signal and leaves the
\* record in the registry.
Pop_NoRemove(h) ==
    /\ hpc[h] = "pop"
    /\ LockFree
    /\ Registered(hloc[h].job_id)
    /\ hpc' = [hpc EXCEPT ![h] = "set_done"]
    /\ UNCHANGED <<registryVars, hloc>>
    /\ UNCHANGED <<callerVars, njob, waiterVars, strays>>
    /\ UNCHANGED <<loopVars, vmVars, handleVars, listVars>>

\* _proc_jobs_lock.acquire(True); _proc_jobs.pop(job_id), the key present;
\* _proc_jobs_lock.release()
Pop(h) ==
    /\ hpc[h] = "pop"
    /\ LockFree
    /\ Registered(hloc[h].job_id)
    /\ proc_jobs' = [proc_jobs EXCEPT ![hloc[h].job_id] = NoJob]
    /\ hpc' = [hpc EXCEPT ![h] = "set_done"]
    /\ UNCHANGED <<lock, idx, jobs, assigned, hloc>>
    /\ UNCHANGED <<callerVars, njob, waiterVars, strays>>
    /\ UNCHANGED <<loopVars, vmVars, handleVars, listVars>>

\* _proc_jobs_lock.acquire(True); _proc_jobs.pop(job_id), the key gone:
\* dict.pop without a default raises KeyError and the handler leaves with
\* the lock acquired; release() is not reached.
RaiseKeyError(h) ==
    /\ hpc[h] = "pop"
    /\ LockFree
    /\ ~Registered(hloc[h].job_id)
    /\ lock' = HandlerId(h)
    /\ Leave(h)
    /\ UNCHANGED <<idx, proc_jobs, jobs, assigned>>
    /\ UNCHANGED <<callerVars, njob, waiterVars, strays>>
    /\ UNCHANGED <<loopVars, vmVars, handleVars, listVars>>

\* Mutant of SetDone: the handler returns without setting the signal.
SetDone_Skipped(h) ==
    /\ hpc[h] = "set_done"
    /\ Leave(h)
    /\ UNCHANGED <<registryVars, callerVars, njob, waiterVars, strays>>
    /\ UNCHANGED <<loopVars, vmVars, handleVars, listVars>>

\* job._done_evt.set()
SetDone(h) ==
    /\ hpc[h] = "set_done"
    /\ jobs' = [jobs EXCEPT ![hloc[h].job].done_evt = TRUE]
    /\ Leave(h)
    /\ UNCHANGED <<lock, idx, proc_jobs, assigned>>
    /\ UNCHANGED <<callerVars, njob, waiterVars, strays>>
    /\ UNCHANGED <<loopVars, vmVars, handleVars, listVars>>

(* ---------------------- _ProcJob.wait (lines 63-68) -------------------- *)

\* await record.wait() starts: coro = asyncio.to_thread(self.wait);
\* asyncio.create_task(coro)
WaitStart(w, c) ==
    /\ wrec[w] = NoJob
    /\ Constructed(c)
    /\ wrec' = [wrec EXCEPT ![w] = c]
    /\ UNCHANGED <<registryVars, callerVars, njob, handlerVars, strays>>
    /\ UNCHANGED <<loopVars, vmVars, handleVars, listVars>>

\* Mutant of WaitEnd: the wait consumes the signal (an auto-reset event).
WaitEnd_Consumes(w) ==
    /\ wrec[w] # NoJob
    /\ WaitReturns(wrec[w])
    /\ wrec' = [wrec EXCEPT ![w] = NoJob]
    /\ jobs' = [jobs EXCEPT ![wrec[w]].done_evt = FALSE]
    /\ UNCHANGED <<lock, idx, proc_jobs, assigned>>
    /\ UNCHANGED <<callerVars, njob, handlerVars, strays>>
    /\ UNCHANGED <<loopVars, vmVars, handleVars, listVars>>

\* the awaited task ends: await record.wait() returns
WaitEnd(w) ==
    /\ wrec[w] # NoJob
    /\ WaitReturns(wrec[w])
    /\ wrec' = [wrec EXCEPT ![w] = NoJob]
    /\ UNCHANGED <<registryVars, callerVars, njob, handlerVars, strays>>
    /\ UNCHANGED <<loopVars, vmVars, handleVars, listVars>>

(* ------------- VixVM power operations (lines 226-325) ----------------- *)

\* The native runtime accepts operation op on a machine in power state st;
\* otherwise the job ends with an error and the machine stays as it was.
Applicable(op, st) ==
    CASE op = "pause"     -> VIX_POWERSTATE_POWERED_ON \in st /\ VIX_POWERSTATE_PAUSED \notin st
      [] op = "unpause"   -> VIX_POWERSTATE_PAUSED \in st
      [] op = "suspend"   -> VIX_POWERSTATE_POWERED_ON \in st /\ VIX_POWERSTATE_PAUSED \notin st
      [] op = "power_on"  -> VIX_POWERSTATE_POWERED_OFF \in st \/ VIX_POWERSTATE_SUSPENDED \in st
      [] op = "power_off" -> VIX_POWERSTATE_POWERED_ON \in st
      [] op = "reset"     -> VIX_POWERSTATE_POWERED_ON \in st

\* The power state of the machine while the job of op is running.
During(op, st) ==
    CASE op = "pause"     -> st
      [] op = "unpause"   -> st
      [] op = "suspend"   -> {VIX_POWERSTATE_SUSPENDING}
      [] op = "power_on"  -> {VIX_POWERSTATE_POWERING_ON}
      [] op = "power_off" -> {VIX_POWERSTATE_POWERING_OFF}
      [] op = "reset"     -> {VIX_POWERSTATE_RESETTING}

\* The power state of the machine once the job of op, started in state st,
\* is done.
After(op, st) ==
    CASE op = "pause"     -> st \cup {VIX_POWERSTATE_PAUSED}
      [] op = "unpause"   -> st \ {VIX_POWERSTATE_PAUSED}
      [] op = "suspend"   -> {VIX_POWERSTATE_SUSPENDED}
      [] op = "power_on"  -> {VIX_POWERSTATE_POWERED_ON}
      [] op = "power_off" -> {VIX_POWERSTATE_POWERED_OFF}
      [] op = "reset"     -> {VIX_POWERSTATE_POWERED_ON}

\* job = vix.VixVM_Pause(self._handle, ...) and its like: the native call
\* starts the job and the task goes on to await it.
PowerCall(op) ==
    /\ ptask.pc = "idle"
    /\ pjob' = [state |-> "running", op |-> op, before |-> power_state,
                error |-> ~Applicable(op, power_state)]
    /\ power_state' = IF Applicable(op, power_state)
                         THEN During(op, power_state) ELSE power_state
    /\ ptask' = [ptask EXCEPT !.pc = "awaiting"]
    /\ UNCHANGED <<bridgeVars, loopVars, handleVars, listVars, tools>>

\* The native runtime finishes the power operation.
PowerJobDone ==
    /\ pjob.state = "running"
    /\ pjob' = [pjob EXCEPT !.state = "done"]
    /\ power_state' = IF pjob.error THEN power_state
                         ELSE After(pjob.op, pjob.before)
    /\ UNCHANGED <<bridgeVars, loopVars, handleVars, listVars, ptask, tools>>

\* VixJob(job).wait_async() completes once the native job is done.
PowerJobIsDone == pjob.state = "done"

\* Mutant of PowerReturn: the operation returns without awaiting the job.
PowerReturn_NoAwait ==
    /\ ptask.pc = "awaiting"
    /\ ~pjob.error
    /\ ptask' = [ptask EXCEPT !.pc = "returned"]
    /\ UNCHANGED <<bridgeVars, loopVars, handleVars, listVars, power_state, pjob, tools>>

\* return await VixJob(job).wait_async(): the job ended without error
PowerReturn ==
    /\ ptask.pc = "awaiting"
    /\ PowerJobIsDone
    /\ ~pjob.error
    /\ ptask' = [ptask EXCEPT !.pc = "returned"]
    /\ UNCHANGED <<bridgeVars, loopVars, handleVars, listVars, power_state, pjob, tools>>

\* return await VixJob(job).wait_async(): the job ended with an error and
\* the await raises VixError
PowerRaise ==
    /\ ptask.pc = "awaiting"
    /\ PowerJobIsDone
    /\ pjob.error
    /\ ptask' = [ptask EXCEPT !.pc = "raised"]
    /\ UNCHANGED <<bridgeVars, loopVars, handleVars, listVars, power_state, pjob, tools>>

\* vm.power_state read after the await, as test_full does
PowerRead ==
    /\ ptask.pc = "returned"
    /\ ptask' = [pc |-> "read", seen |-> power_state]
    /\ UNCHANGED <<bridgeVars, loopVars, handleVars, listVars, power_state, pjob, tools>>

\* The task goes on to its next operation.
PowerIdle ==
    /\ ptask.pc \in {"read", "raised"}
    /\ pjob.state = "done"
    /\ ptask' = IdleTask
    /\ pjob' = NoPowerJob
    /\ UNCHANGED <<bridgeVars, loopVars, handleVars, listVars, power_state, tools>>

(* ---------------- VixVM.install_tools (lines 1217-1239) --------------- *)

RECURSIVE BitOr(_, _)
\* a | b on non-negative integers
BitOr(a, b) ==
    IF a = 0 THEN b
    ELSE IF b = 0 THEN a
    ELSE (IF a % 2 = 1 \/ b % 2 = 1 THEN 1 ELSE 0) + 2 * BitOr(a \div 2, b \div 2)

\* options & flag is not zero, for a flag of one bit
HasFlag(options, flag) == (options \div flag) % 2 = 1

\* options = 0
\* if blocking: options |= self._VIX_INSTALLTOOLS_RETURN_IMMEDIATELY
\* if auto_upgrade: options |= self._VIX_INSTALLTOOLS_AUTO_UPGRADE
InstallToolsOptions(auto_upgrade, blocking) ==
    LET o1 == IF blocking THEN BitOr(0, VIX_INSTALLTOOLS_RETURN_IMMEDIATELY) ELSE 0
    IN  IF auto_upgrade THEN BitOr(o1, VIX_INSTALLTOOLS_AUTO_UPGRADE) ELSE o1

\* install_tools(auto_upgrade, blocking) on a machine that is powered on:
\* vix.VixVM_InstallTools(self._handle, options, ...)
InstallTools(auto_upgrade, blocking) ==
    /\ ptask.pc = "idle"
    /\ VIX_POWERSTATE_POWERED_ON \in power_state
    /\ tools' = [called |-> TRUE, auto_upgrade |-> auto_upgrade,
                 blocking |-> blocking,
                 options |-> InstallToolsOptions(auto_upgrade, blocking)]
    /\ UNCHANGED <<bridgeVars, loopVars, handleVars, listVars, power_state, pjob, ptask>>

(* ------- proc_run / run_script as tasks of one event loop ------------- *)

\* Task c has a statement it can run now: it has not returned, and it is
\* not suspended on a native job that is still running.
Ready(c) ==
    /\ cpc[c] # "returned"
    /\ cpc[c] = "job_wait" => JobIsDone(c)

\* The event loop's thread starts or resumes a ready task.
Resume(c) ==
    /\ running = NoTask
    /\ Ready(c)
    /\ running' = c
    /\ UNCHANGED <<bridgeVars, vmVars, handleVars, listVars>>

\* await VixJob(job).wait_async(...): the task is suspended while the wait on
\* the native job is pending and the thread goes back to the event loop.
Suspend(c) ==
    /\ running = c
    /\ cpc[c] = "job_wait"
    /\ running' = NoTask
    /\ UNCHANGED <<bridgeVars, vmVars, handleVars, listVars>>

\* The task's coroutine has returned and the thread goes back to the loop.
Finish(c) ==
    /\ running = c
    /\ cpc[c] = "returned"
    /\ running' = NoTask
    /\ UNCHANGED <<bridgeVars, vmVars, handleVars, listVars>>

(* ---------- handle wrappers: VixVM, VixSnapshot, VixHandle ------------ *)
(* A virtual machine with a root snapshot and one child of it.  A native  *)
(* call that returns a handle gives the program one reference to it, to   *)
(* be given back by one native release.                                   *)

KindMatches_Always(cls, h) == TRUE

\* The assert of VixVM.__init__ (line 131) and of VixSnapshot.__init__
\* (line 13); VixHandle itself checks nothing.
KindMatches(cls, h) ==
    CASE cls = "VixVM" -> GetType(h) = "VM"
      [] cls = "VixSnapshot" -> GetType(h) = "SNAPSHOT"
      [] OTHER -> TRUE

\* A wrapper after cls(h): super().__init__(h) has stored the handle, and
\* the constructor has returned (ok) or raised AssertionError (~ok).
NewWrapper(cls, h) ==
    [cls |-> cls, handle |-> h, released |-> FALSE,
     ok |-> KindMatches(cls, h), alive |-> TRUE]

\* VixHandle.release: the native handle is given back unless this wrapper
\* has given it back already.
ReleasedBy(i) ==
    IF wrappers[i].released THEN releases
    ELSE [releases EXCEPT ![wrappers[i].handle] = @ + 1]

AtRest == sop.pc \in {"idle", "done"}

\* vm = VixVM(handle), the handle having been opened by the host.
NewVixVM(h) ==
    /\ AtRest
    /\ Len(wrappers) < MaxWrappers
    /\ wrappers' = Append(wrappers, NewWrapper("VixVM", h))
    /\ acquired' = [acquired EXCEPT ![h] = @ + 1]
    /\ UNCHANGED <<releases, sop>>
    /\ UNCHANGED <<bridgeVars, loopVars, vmVars, listVars>>

\* snapshot = VixSnapshot(handle), the handle having come from a job.
NewVixSnapshot(h) ==
    /\ AtRest
    /\ Len(wrappers) < MaxWrappers
    /\ wrappers' = Append(wrappers, NewWrapper("VixSnapshot", h))
    /\ acquired' = [acquired EXCEPT ![h] = @ + 1]
    /\ UNCHANGED <<releases, sop>>
    /\ UNCHANGED <<bridgeVars, loopVars, vmVars, listVars>>

\* wrapper.release() by the program, on a wrapper it holds.
Release(i) ==
    /\ AtRest
    /\ i \in 1..Len(wrappers)
    /\ wrappers[i].alive /\ wrappers[i].ok
    /\ releases' = ReleasedBy(i)
    /\ wrappers' = [wrappers EXCEPT ![i].released = TRUE]
    /\ UNCHANGED <<acquired, sop>>
    /\ UNCHANGED <<bridgeVars, loopVars, vmVars, listVars>>

\* The last reference to wrapper i is gone: __del__ calls self.release().
\* A wrapper whose constructor raised has no reference but its own.
Destroy(i) ==
    /\ AtRest
    /\ i \in 1..Len(wrappers)
    /\ wrappers[i].alive
    /\ releases' = ReleasedBy(i)
    /\ wrappers' = [wrappers EXCEPT ![i].released = TRUE, ![i].alive = FALSE]
    /\ UNCHANGED <<acquired, sop>>
    /\ UNCHANGED <<bridgeVars, loopVars, vmVars, listVars>>

(* --- snapshot operations (VixVM.py 385-477, VixSnapshot.py 42-105) ----- *)

\* The native call of op on wrapper i, returning code and, on success, out.
SnapCall(op, i, code, out) ==
    /\ AtRest
    /\ i \in 1..Len(wrappers)
    /\ wrappers[i].alive /\ wrappers[i].ok /\ ~wrappers[i].released
    /\ wrappers[i].cls = (IF op \in VmOps THEN "VixVM" ELSE "VixSnapshot")
    /\ IF code = VIX_OK
          THEN out \in NativeOut(op, wrappers[i].handle)
          ELSE out = NoHandle
    /\ op \notin CountOps => Len(wrappers) + (IF op = "get_parent" THEN 2 ELSE 1) <= MaxWrappers
    /\ sop' = [op |-> op, self |-> i, pc |-> "called", code |-> code,
               calls |-> 1, out |-> out, temp |-> 0,
               outcome |-> "pending", value |-> None]
    /\ acquired' = IF code = VIX_OK /\ op \notin CountOps /\ out # NoHandle
                      THEN [acquired EXCEPT ![out] = @ + 1]
                      ELSE acquired
    /\ UNCHANGED <<wrappers, releases>>
    /\ UNCHANGED <<bridgeVars, loopVars, vmVars, listVars>>

SnapRaise_Retry ==
    /\ sop.pc = "called"
    /\ sop.code # VIX_OK
    /\ sop.calls < 2
    /\ \E code \in ErrorCodes \ {VIX_OK} :
          sop' = [sop EXCEPT !.calls = @ + 1, !.code = code]
    /\ UNCHANGED <<wrappers, releases, acquired>>
    /\ UNCHANGED <<bridgeVars, loopVars, vmVars, listVars>>

\* if error_code != VixError.VIX_OK: raise VixError(error_code)
SnapRaise ==
    /\ sop.pc = "called"
    /\ sop.code # VIX_OK
    /\ sop' = [sop EXCEPT !.pc = "done", !.outcome = "raised",
                          !.value = sop.code]
    /\ UNCHANGED <<wrappers, releases, acquired>>
    /\ UNCHANGED <<bridgeVars, loopVars, vmVars, listVars>>

\* return result[0] / return int(child_count[0])
SnapReturnCount ==
    /\ sop.pc = "called"
    /\ sop.code = VIX_OK
    /\ sop.op \in CountOps
    /\ sop' = [sop EXCEPT !.pc = "done", !.outcome = "count",
                          !.value = sop.out]
    /\ UNCHANGED <<wrappers, releases, acquired>>
    /\ UNCHANGED <<bridgeVars, loopVars, vmVars, listVars>>

\* return VixSnapshot(snapshot_handle[0]) / VixSnapshot(child_handle[0])
SnapWrap ==
    /\ sop.pc = "called"
    /\ sop.code = VIX_OK
    /\ sop.op \notin CountOps \cup {"get_parent"}
    /\ wrappers' = Append(wrappers, NewWrapper("VixSnapshot", sop.out))
    /\ sop' = [sop EXCEPT
                  !.pc = "done",
                  !.outcome = IF KindMatches("VixSnapshot", sop.out)
                                 THEN "wrapper" ELSE "assert",
                  !.value = IF KindMatches("VixSnapshot", sop.out)
                               THEN Len(wrappers) + 1 ELSE None]
    /\ UNCHANGED <<releases, acquired>>
    /\ UNCHANGED <<bridgeVars, loopVars, vmVars, listVars>>

\* get_parent, line 100: temp_handle = VixHandle(parent_handle[0])
GetParentTemp ==
    /\ sop.pc = "called"
    /\ sop.code = VIX_OK
    /\ sop.op = "get_parent"
    /\ wrappers' = Append(wrappers, NewWrapper("VixHandle", sop.out))
    /\ sop' = [sop EXCEPT !.pc = "temp", !.temp = Len(wrappers) + 1]
    /\ UNCHANGED <<releases, acquired>>
    /\ UNCHANGED <<bridgeVars, loopVars, vmVars, listVars>>

\* get_parent, lines 101-103: the root has no parent.
GetParentRoot ==
    /\ sop.pc = "temp"
    /\ GetType(wrappers[sop.temp].handle) = "NONE"
    /\ releases' = ReleasedBy(sop.temp)
    /\ wrappers' = [wrappers EXCEPT ![sop.temp].released = TRUE]
    /\ sop' = [sop EXCEPT !.pc = "done", !.outcome = "none", !.value = None]
    /\ UNCHANGED acquired
    /\ UNCHANGED <<bridgeVars, loopVars, vmVars, listVars>>

\* get_parent, line 105: return VixSnapshot(parent_handle[0]); temp_handle
\* stays as it is and is destroyed once the frame is gone.
GetParentWrap ==
    /\ sop.pc = "temp"
    /\ GetType(wrappers[sop.temp].handle) # "NONE"
    /\ wrappers' = Append(wrappers, NewWrapper("VixSnapshot", sop.out))
    /\ sop' = [sop EXCEPT
                  !.pc = "done",
                  !.outcome = IF KindMatches("VixSnapshot", sop.out)
                                 THEN "wrapper" ELSE "assert",
                  !.value = IF KindMatches("VixSnapshot", sop.out)
                               THEN Len(wrappers) + 1 ELSE None]
    /\ UNCHANGED <<releases, acquired>>
    /\ UNCHANGED <<bridgeVars, loopVars, vmVars, listVars>>

(* ---- guest listings: get_file_info, dir_list, proc_list,              *)
(* ---- get_shared_folder_state (VixVM.py 708-839, 998-1029) ------------ *)
(* Each operation starts its job, waits for it, fetches the result rows   *)
(* with job.get_properties and builds its result from them.               *)

VIX_FILE_ATTRIBUTES_DIRECTORY == 1
VIX_FILE_ATTRIBUTES_SYMLINK == 2
VIX_SHAREDFOLDER_WRITE_ACCESS == 4

\* Rows of (size, flags, modification time).
FileRows == {<<size, flags, 9>> : size \in {0, 5}, flags \in 0..3}
\* Rows of (name, size, flags, modification time).
DirRows == {<<name, 5, flags, 9>> : name \in {"a", "b"}, flags \in 0..2}
\* Rows of (name, pid, owner, command, being debugged, start time).
ProcRows == {<<name, pid, "root", name, 0, 9>> :
                name \in {"init", "sh"}, pid \in {1, 2}}
\* Rows of (name, host path, flags).
FolderRows == {<<"share", "/host", flags>> : flags \in {0, 4, 5}}

\* What job.get_properties can return: any rows, up to MaxRows of them.
RowSeqs(S) == UNION {[1..n -> S] : n \in 0..MaxRows}

FileInfoEntry(res) ==
    [name |-> None,
     size |-> res[1],
     is_dir |-> HasFlag(res[2], VIX_FILE_ATTRIBUTES_DIRECTORY),
     is_sym |-> HasFlag(res[2], VIX_FILE_ATTRIBUTES_SYMLINK),
     last_mod |-> res[3]]

DirEntry(res) ==
    [name |-> res[1],
     size |-> res[2],
     is_dir |-> HasFlag(res[3], VIX_FILE_ATTRIBUTES_DIRECTORY),
     is_sym |-> HasFlag(res[3], VIX_FILE_ATTRIBUTES_SYMLINK),
     last_mod |-> res[4]]

ProcEntry(entry) ==
    [name |-> entry[1], pid |-> entry[2], owner |-> entry[3],
     cmd |-> entry[4], is_debug |-> entry[5], start_time |-> entry[6]]

FolderEntry(res) ==
    [name |-> res[1],
     host_path |-> res[2],
     write_access |-> HasFlag(res[3], VIX_SHAREDFOLDER_WRITE_ACCESS)]

ExpectSingle_NonEmpty(res) == Len(res) >= 1

\* assert len(res) == 1, 'Expected single result'
ExpectSingle(res) == Len(res) = 1

RECURSIVE DirListLoop_Prepends(_, _)
DirListLoop_Prepends(job_result, acc) ==
    IF job_result = << >> THEN acc
    ELSE DirListLoop_Prepends(Tail(job_result),
                              <<DirEntry(Head(job_result))>> \o acc)

\* for res in job_result: result.append(DirectoryListEntry(...))
RECURSIVE DirListLoop(_, _)
DirListLoop(job_result, acc) ==
    IF job_result = << >> THEN acc
    ELSE DirListLoop(Tail(job_result),
                     Append(acc, DirEntry(Head(job_result))))

\* [ProcessListEntry(...) for entry in job.get_properties(...)]
RECURSIVE ProcListLoop(_, _)
ProcListLoop(job_result, acc) ==
    IF job_result = << >> THEN acc
    ELSE ProcListLoop(Tail(job_result),
                      Append(acc, ProcEntry(Head(job_result))))

\* The outcome of an operation whose job.wait() raised VixError(code).
JobRaised(op, code) ==
    [op |-> op, rows |-> << >>, code |-> code, outcome |-> "raised",
     value |-> << >>]

\* The outcome of a single-result operation on the rows res.
SingleResult(op, res, entry) ==
    [op |-> op, rows |-> res, code |-> VIX_OK,
     outcome |-> IF ExpectSingle(res) THEN "entry" ELSE "assert",
     value |-> IF ExpectSingle(res) THEN <<entry>> ELSE << >>]

GetFileInfo(code, res) ==
    /\ lop' = IF code # VIX_OK THEN JobRaised("get_file_info", code)
              ELSE SingleResult("get_file_info", res,
                                FileInfoEntry(res[1]))
    /\ UNCHANGED <<bridgeVars, loopVars, vmVars, handleVars>>

GetSharedFolderState(code, res) ==
    /\ lop' = IF code # VIX_OK THEN JobRaised("get_shared_folder_state", code)
              ELSE SingleResult("get_shared_folder_state", res,
                                FolderEntry(res[1]))
    /\ UNCHANGED <<bridgeVars, loopVars, vmVars, handleVars>>

DirList(code, job_result) ==
    /\ lop' = IF code # VIX_OK THEN JobRaised("dir_list", code)
              ELSE [op |-> "dir_list", rows |-> job_result, code |-> VIX_OK,
                    outcome |-> "list",
                    value |-> DirListLoop(job_result, << >>)]
    /\ UNCHANGED <<bridgeVars, loopVars, vmVars, handleVars>>

ProcList(code, job_result) ==
    /\ lop' = IF code # VIX_OK THEN JobRaised("proc_list", code)
              ELSE [op |-> "proc_list", rows |-> job_result, code |-> VIX_OK,
                    outcome |-> "list",
                    value |-> ProcListLoop(job_result, << >>)]
    /\ UNCHANGED <<bridgeVars, loopVars, vmVars, handleVars>>

(* --------------------------- specifications --------------------------- *)

CallerStep(c) ==
    \/ Call(c) \/ InitSetId(c) \/ InitInsert(c) \/ NativeCall(c)
    \/ SetPid(c) \/ ReturnImmediately(c) \/ Wait(c) \/ ReturnBlocking(c)

\* the handler's steps on the events the runtime's contract allows
HandlerStep(h) ==
    \/ Progress(h) \/ GetProperties(h) \/ WritePid(h) \/ WriteExitCode(h)
    \/ WriteElapsedTime(h) \/ Pop(h) \/ SetDone(h)

\* the handler's steps that only a stray event leads to
HandlerFaultStep(h) ==
    \/ RaiseNoJob(h) \/ RaiseUnexpected(h) \/ GetPropertiesStray(h)
    \/ GetPropertiesFails(h) \/ RaisePidChanged(h) \/ RaiseKeyError(h)

WaiterStep(w) ==
    \/ \E c \in Callers : WaitStart(w, c)
    \/ WaitEnd(w)

RuntimeStep ==
    \/ \E c \in Callers : NativeJobDone(c)
    \/ \E h \in Handlers, c \in Callers : DeliverProgress(h, c)
    \/ \E h \in Handlers, c \in Callers : DeliverCompleted(h, c)

RuntimeFaultStep ==
    \E h \in Handlers, t \in StrayTokens, e \in EventTypes : DeliverStray(h, t, e)

\* The runtime keeps its contract: one completion event per job, after the
\* job is done, and progress events before.
NextNominal ==
    \/ \E c \in Callers : CallerStep(c)
    \/ \E h \in Handlers : HandlerStep(h)
    \/ \E w \in Waiters : WaiterStep(w)
    \/ RuntimeStep

\* The runtime may also deliver stray events.
Next ==
    \/ NextNominal
    \/ \E h \in Handlers : HandlerFaultStep(h)
    \/ RuntimeFaultStep

Spec == Init /\ [][Next]_vars

NominalSpec == Init /\ [][NextNominal]_vars

\* The callers, the handlers and the runtime, stray events and failing
\* handlers included, without the extra waiting tasks.
NextCalls ==
    \/ \E c \in Callers : CallerStep(c)
    \/ \E h \in Handlers : HandlerStep(h)
    \/ RuntimeStep
    \/ \E h \in Handlers : HandlerFaultStep(h)
    \/ RuntimeFaultStep

\* Every thread that can take a step takes one in the end: the callers are
\* scheduled by their event loops, the handlers run on the runtime's own
\* threads, and the runtime finishes each job and delivers its completion
\* event.  Stray events are never owed.
Fairness ==
    /\ \A c \in Callers : WF_vars(CallerStep(c))
    /\ \A h \in Handlers : WF_vars(HandlerStep(h) \/ HandlerFaultStep(h))
    /\ \A c \in Callers : WF_vars(NativeJobDone(c))
    /\ \A c \in Callers : WF_vars(\E h \in Handlers : DeliverCompleted(h, c))

FairSpec == Init /\ [][NextCalls]_vars /\ Fairness

\* The same scheduling with a runtime that keeps its contract: it delivers
\* the one completion event of each job, and the property fetch succeeds.
NominalFairness ==
    /\ \A c \in Callers : WF_vars(CallerStep(c))
    /\ \A h \in Handlers : WF_vars(HandlerStep(h))
    /\ \A c \in Callers : WF_vars(NativeJobDone(c))
    /\ \A c \in Callers : WF_vars(\E h \in Handlers : DeliverCompleted(h, c))

FairNominalSpec == NominalSpec /\ NominalFairness

\* A statement of proc_run, run by the event loop's thread.
TaskStep(c) ==
    /\ running = c
    /\ CallerStep(c)

\* proc_run and run_script called from tasks of one event loop, with a
\* runtime that keeps its contract.
NextLoop ==
    \/ \E c \in Callers : Resume(c)
    \/ \E c \in Callers : Suspend(c)
    \/ \E c \in Callers : Finish(c)
    \/ \E c \in Callers : TaskStep(c)
    \/ \E h \in Handlers : HandlerStep(h)
    \/ RuntimeStep

LoopSpec == Init /\ [][NextLoop]_vars

\* One task that calls the power operations and install_tools of a VixVM.
NextVm ==
    \/ \E op \in PowerOps : PowerCall(op)
    \/ PowerJobDone
    \/ PowerReturn
    \/ PowerRaise
    \/ PowerRead
    \/ PowerIdle
    \/ \E a, b \in BOOLEAN : InstallTools(a, b)

VmSpec == Init /\ [][NextVm]_vars

\* The program builds, uses, releases and drops handle wrappers.
NextHandle ==
    \/ \E h \in AnyHandle : NewVixVM(h)
    \/ \E h \in AnyHandle : NewVixSnapshot(h)
    \/ \E i \in 1..MaxWrappers : Release(i)
    \/ \E i \in 1..MaxWrappers : Destroy(i)
    \/ \E op \in SnapOps, i \in 1..MaxWrappers, code \in ErrorCodes,
          out \in AnyHandle : SnapCall(op, i, code, out)
    \/ SnapRaise
    \/ SnapReturnCount
    \/ SnapWrap
    \/ GetParentTemp
    \/ GetParentRoot
    \/ GetParentWrap

HandleSpec == Init /\ [][NextHandle]_vars

\* The program runs guest listing operations, one after the other.
NextList ==
    \/ \E code \in ErrorCodes, res \in RowSeqs(FileRows) :
          GetFileInfo(code, res)
    \/ \E code \in ErrorCodes, res \in RowSeqs(FolderRows) :
          GetSharedFolderState(code, res)
    \/ \E code \in ErrorCodes, job_result \in RowSeqs(DirRows) :
          DirList(code, job_result)
    \/ \E code \in ErrorCodes, job_result \in RowSeqs(ProcRows) :
          ProcList(code, job_result)

ListSpec == Init /\ [][NextList]_vars

(* ------------------------------ claims -------------------------------- *)

\* The Process a blocking call of c must return: the values of the
\* completion event of its token.
Completion(c) == <<ProcessId(c), ExitCode(c), ElapsedTime(c)>>

\* C1: a call of proc_run / run_script with should_block=True returns only
\* after the completion signal of its record is set, and the Process it
\* returns carries the pid, exit_code and elapsed_time of the completion
\* event of its token.
C1_BlockingCallReturnsCompletion ==
    \A c \in Callers :
        (cpc[c] = "returned" /\ should_block[c])
            => (jobs[c].done_evt /\ result[c] = Completion(c))

\* C2: when the native call that receives the token is issued, __init__ has
\* released the lock and the token is in the registry under the caller's
\* record; and when the runtime enters the callback for a job of this
\* program, the record of the job's token has been constructed.
C2_RegisteredBeforeNativeCall ==
    [][ /\ \A c \in Callers :
              NativeCall(c) =>
                  /\ jobs[c].id \in Tokens
                  /\ proc_jobs[jobs[c].id] = c
                  /\ lock # CallerId(c)
                  /\ njob'[c].token = jobs[c].id
        /\ \A h \in Handlers :
              (hpc[h] = "idle" /\ hpc'[h] = "by_id" /\ hloc'[h].a # NoHandle)
                  => /\ Constructed(hloc'[h].a)
                     /\ jobs[hloc'[h].a].id = hloc'[h].job_id
      ]_vars

\* C2 witness: a callback for the token of a running job is at its lookup
\* and the token is in the registry.
C2_Witness ==
    \E h \in Handlers, c \in Callers :
        /\ hpc[h] = "by_id"
        /\ hloc[h].a = c
        /\ njob[c].state = "running"
        /\ proc_jobs[njob[c].token] = c

StrictlyIncreasing(seq) ==
    \A i, j \in DOMAIN seq : i < j => seq[i] < seq[j]

\* C4: tokens are pairwise distinct and strictly increasing in registration
\* order, also when a record was removed in between, and each registration
\* inserts a record whose pid, exit_code and elapsed_time are unset and whose
\* signal is unset.
C4_TokensStrictlyIncreasing ==
    /\ [](StrictlyIncreasing(assigned))
    /\ [][ \A c \in Callers :
              InitInsert(c) =>
                  /\ proc_jobs'[jobs[c].id] = c
                  /\ proc_jobs[jobs[c].id] = NoJob
                  /\ Fields(c) = NoResult
                  /\ ~jobs[c].done_evt
         ]_vars

\* C4 witness: two tokens have been assigned, the record of the first has
\* been removed by the callback and the record of the second is registered.
C4_Witness ==
    /\ Len(assigned) = 2
    /\ ~Registered(assigned[1])
    /\ Registered(assigned[2])

\* C5: a call of _ProcJob.wait(), made by proc_run or awaited by a task,
\* returns only when the record's completion signal is set.
C5_WaitReturnsAfterSet ==
    [][ /\ \A w \in Waiters : WaitEnd(w) => jobs[wrec[w]].done_evt
        /\ \A c \in Callers : Wait(c) => jobs[c].done_evt
      ]_vars

\* C6: of the waiters on one record (the call that built it and the tasks
\* awaiting it), none returns before the completion is stored, and each finds
\* the same pid, exit_code and elapsed_time, those of the completion event.
C6_WaitersSeeCompletion ==
    [][ \A c \in Callers :
          /\ \A w \in Waiters :
                (WaitEnd(w) /\ wrec[w] = c) => Fields(c) = Completion(c)
          /\ Wait(c) => Fields(c) = Completion(c)
      ]_vars

\* C7: a completion signal goes from unset to set at most once and is never
\* cleared; starting or ending a wait leaves every signal as it is; and a wait
\* on a record whose signal is set can return at once.
C7_SignalOneShot ==
    /\ [](\A w \in Waiters :
            (wrec[w] # NoJob /\ jobs[wrec[w]].done_evt) => ENABLED WaitEnd(w))
    /\ [][ /\ \A c \in Callers : jobs[c].done_evt => jobs'[c].done_evt
           /\ \A h \in Handlers : SetDone(h) => ~jobs[hloc[h].job].done_evt
           /\ \A w \in Waiters, c \in Callers :
                 (WaitEnd(w) \/ WaitStart(w, c)) =>
                     \A r \in Callers : jobs'[r].done_evt = jobs[r].done_evt
         ]_vars

\* C7 witness: a task is waiting on a record whose signal is set.
C7_Witness ==
    \E w \in Waiters : wrec[w] # NoJob /\ jobs[wrec[w]].done_evt

\* C8: a handler whose lookup finds the token not in the registry raises
\* ValueError and changes neither the registry nor any record, signal or the
\* lock.
C8_UnknownTokenRaises ==
    [][ \A h \in Handlers :
          (hpc[h] = "by_id" /\ hpc'[h] # "by_id" /\ ~Registered(hloc[h].job_id))
              => (RaiseNoJob(h) /\ UNCHANGED <<proc_jobs, jobs, lock, idx>>)
      ]_vars

\* C8 witness: a second completion event for a token whose first completion
\* has been processed is at its lookup.
C8_Witness ==
    \E h \in Handlers, c \in Callers :
        /\ hpc[h] = "by_id"
        /\ hloc[h].event_type = VIX_EVENTTYPE_JOB_COMPLETED
        /\ hloc[h].job_id = jobs[c].id
        /\ jobs[c].done_evt
        /\ ~Registered(hloc[h].job_id)

\* C9: at most one callback obtains a given record: no two handlers hold the
\* same record at the same time.
C9_OneCallbackObtainsRecord ==
    \A g, h \in Handlers :
        (g # h /\ hloc[g].job # NoJob) => hloc[g].job # hloc[h].job

\* C10: a completion event that reports a process id other than the one the
\* record already has (0 included) makes the handler raise, and the record's
\* pid, exit_code and elapsed_time stay as they were.
C10_PidMismatchRaises ==
    [][ \A h \in Handlers :
          ( /\ hpc[h] = "check_pid"
            /\ hpc'[h] # "check_pid"
            /\ jobs[hloc[h].job].pid # None
            /\ jobs[hloc[h].job].pid # hloc[h].props[1] )
              => (RaisePidChanged(h) /\ UNCHANGED jobs)
      ]_vars

\* C12: a handler called with an event type that is neither completion nor
\* progress leaves by a raise at once, whether its token is registered or
\* not, and changes neither the registry nor any record, signal or the lock.
C12_UnknownKindRaises ==
    [][ \A h \in Handlers :
          ( /\ hpc[h] = "by_id"
            /\ hpc'[h] # "by_id"
            /\ hloc[h].event_type \notin {VIX_EVENTTYPE_JOB_COMPLETED,
                                           VIX_EVENTTYPE_JOB_PROGRESS} )
              => ( /\ RaiseUnexpected(h) \/ RaiseNoJob(h)
                   /\ hpc'[h] = "idle"
                   /\ UNCHANGED <<proc_jobs, jobs, lock, idx>> )
      ]_vars

\* C12 witness: an event of an unknown type for a registered token is at the
\* handler's lookup.
C12_Witness ==
    \E h \in Handlers :
        /\ hpc[h] = "by_id"
        /\ hloc[h].event_type = OtherEventType
        /\ Registered(hloc[h].job_id)

\* C13: a progress event changes nothing: the registry, every record's
\* fields and signal and the lock are as before when its handler has left,
\* so the record is still registered for the completion that follows.
C13_ProgressIsNoOp ==
    [][ \A h \in Handlers :
          ( /\ hpc[h] = "by_id"
            /\ hpc'[h] # "by_id"
            /\ hloc[h].event_type = VIX_EVENTTYPE_JOB_PROGRESS )
              => ( /\ hpc'[h] = "idle"
                   /\ UNCHANGED <<proc_jobs, jobs, lock, idx>> )
      ]_vars

\* C13 witness: a progress event for the token of a registered record is at
\* the handler's lookup.
C13_Witness ==
    \E h \in Handlers, c \in Callers :
        /\ hpc[h] = "by_id"
        /\ hloc[h].event_type = VIX_EVENTTYPE_JOB_PROGRESS
        /\ hloc[h].job_id = jobs[c].id
        /\ Registered(hloc[h].job_id)

\* C14: a record leaves the registry only in the handler of a completion
\* event that carries the record's own token; a record whose token is never
\* delivered in a completion event stays registered.
C14_RemovedOnlyByOwnCompletion ==
    [][ \A t \in Tokens :
          (Registered(t) /\ ~Registered(t)') =>
              \E h \in Handlers :
                  /\ hpc[h] = "pop"
                  /\ hpc'[h] = "set_done"
                  /\ hloc[h].job_id = t
                  /\ hloc[h].event_type = VIX_EVENTTYPE_JOB_COMPLETED
      ]_vars

\* C14 witness: a record is still registered, no completion event of its
\* job delivered, after another record was completed and removed.
C14_Witness ==
    \E b, c \in Callers :
        /\ Registered(jobs[b].id)
        /\ njob[b].state = "running"
        /\ jobs[c].done_evt
        /\ ~Registered(jobs[c].id)

\* C16: a call with should_block=False returns Process(pid, None, None), pid
\* the process id of its native job, whatever the callback has stored in the
\* record by then; and it returns as soon as its native job is done, the
\* record's signal set or not.
C16_NonBlockingReturnsPidOnly ==
    \A c \in Callers :
        /\ (cpc[c] = "returned" /\ ~should_block[c]) =>
               /\ result[c] = <<njob[c].pid, None, None>>
               /\ result[c][1] # None
        /\ (cpc[c] = "job_wait" /\ ~should_block[c] /\ JobIsDone(c)) =>
               ENABLED ReturnImmediately(c)

\* C16 witness: a call with should_block=False has returned although the
\* callback had stored the exit code and the elapsed time in its record.
C16_Witness ==
    \E c \in Callers :
        /\ cpc[c] = "returned"
        /\ ~should_block[c]
        /\ jobs[c].exit_code # None
        /\ jobs[c].elapsed_time # None

CallerWraps(c) == IF cpc[c] = "job_wait" THEN c ELSE NoHandle

\* The native handle that the wrapper built by the handler on thread h
\* refers to: handle = VixHandle(a) at line 1251 lives while the handler runs.
HandlerWraps(h) == IF hpc[h] # "idle" THEN hloc[h].a ELSE NoHandle

\* C20: no two live wrappers refer to the same native handle: the wrapper a
\* handler builds around the job handle of its event and the job wrapper of
\* the call that started the job are never alive together.
C20_HandleExclusivelyOwned ==
    \A h \in Handlers, c \in Callers :
        CallerWraps(c) # NoHandle => HandlerWraps(h) # CallerWraps(c)

C15_PowerOpReturnsAfterJob ==
    /\ ptask.pc \in {"returned", "read"} => pjob.state = "done"
    /\ ptask.pc = "read" =>
          /\ pjob.op = "pause" => VIX_POWERSTATE_PAUSED \in ptask.seen
          /\ pjob.op = "unpause" => VIX_POWERSTATE_PAUSED \notin ptask.seen
          /\ pjob.op = "suspend" => VIX_POWERSTATE_SUSPENDED \in ptask.seen
          /\ pjob.op = "power_on" =>
                 /\ VIX_POWERSTATE_SUSPENDED \notin ptask.seen
                 /\ VIX_POWERSTATE_POWERED_ON \in ptask.seen
          /\ pjob.op = "power_off" => VIX_POWERSTATE_POWERED_OFF \in ptask.seen
          /\ pjob.op = "reset" => VIX_POWERSTATE_POWERED_ON \in ptask.seen

\* C15 witness: the power state has been read after an awaited power_on of
\* a suspended machine.
C15_Witness ==
    /\ ptask.pc = "read"
    /\ pjob.op = "power_on"
    /\ VIX_POWERSTATE_SUSPENDED \in pjob.before

\* C17: install_tools gives the native call the return-immediately option
\* exactly when blocking is False and the auto-upgrade option exactly when
\* auto_upgrade is True.
C17_InstallToolsOptions ==
    tools.called =>
        /\ HasFlag(tools.options, VIX_INSTALLTOOLS_RETURN_IMMEDIATELY)
               <=> ~tools.blocking
        /\ HasFlag(tools.options, VIX_INSTALLTOOLS_AUTO_UPGRADE)
               <=> tools.auto_upgrade

\* A wait of task c is pending: the wait on its native job, or the wait on
\* its record's signal.
Pending(c) ==
    \/ cpc[c] = "job_wait" /\ ~JobIsDone(c)
    \/ cpc[c] = "wait" /\ ~WaitReturns(c)

C26_LockFreeAfterInvocation ==
    (\A c \in Callers : cpc[c] \notin {"init_id", "init_incr"}) => lock = NoThread

\* The token of record c is in the registry and its signal is unset.
IsRegistered(c) == Registered(jobs[c].id) /\ ~jobs[c].done_evt

\* The token of record c is not in the registry and its signal is set.
IsCompleted(c) == ~Registered(jobs[c].id) /\ jobs[c].done_evt

\* The token of record c has been removed by a handler that has not yet
\* set the record's signal.
IsCompleting(c) ==
    /\ ~Registered(jobs[c].id)
    /\ ~jobs[c].done_evt
    /\ \E h \in Handlers : hpc[h] = "set_done" /\ hloc[h].job = c

\* C27 as stated: every record that _ProcJob() has returned is either
\* Registered or Completed, in every state.
C27_RegisteredOrCompleted ==
    \A c \in Callers : Constructed(c) => (IsRegistered(c) \/ IsCompleted(c))

\* C27 amended: every record that _ProcJob() has returned is in exactly one
\* of Registered, Completing (removed by a handler that is about to set the
\* signal) and Completed; a record moves only from Registered to Completing
\* and from Completing to Completed, and a Completed record stays Completed.
C27_RegisteredCompletingCompleted ==
    /\ [](\A c \in Callers :
            Constructed(c) => (IsRegistered(c) \/ IsCompleting(c) \/ IsCompleted(c)))
    /\ [][ \A c \in Callers :
             /\ (Constructed(c) /\ IsRegistered(c)) =>
                    (IsRegistered(c)' \/ IsCompleting(c)')
             /\ (Constructed(c) /\ IsCompleting(c)) =>
                    (IsCompleting(c)' \/ IsCompleted(c)')
             /\ (Constructed(c) /\ IsCompleted(c)) => IsCompleted(c)'
         ]_vars

\* C27 witness: a record is Completed while another is between its removal
\* and the setting of its signal.
C27_Witness ==
    \E b, c \in Callers :
        /\ Constructed(b) /\ IsCompleted(b)
        /\ Constructed(c) /\ IsCompleting(c)

\* C28: a step of the handler of an event for token t changes no record but
\* the one whose token is t and no registry entry but that of t; and the
\* exit code and the elapsed time a call returns are never those of another
\* call's job.
C28_CompletionTouchesOwnRecordOnly ==
    /\ [][ \A h \in Handlers :
             (hpc[h] # "idle" /\ hpc'[h] # hpc[h]) =>
                 /\ \A c \in Callers :
                        jobs[c].id # hloc[h].job_id => jobs'[c] = jobs[c]
                 /\ \A u \in Tokens :
                        u # hloc[h].job_id => proc_jobs'[u] = proc_jobs[u]
         ]_vars
    /\ [](\A b, c \in Callers :
            b # c => /\ result[c][2] # ExitCode(b)
                     /\ result[c][3] # ElapsedTime(b))

\* C28 witness: a handler is about to store the exit code of one call's job
\* while the record of another call is registered, its job still running.
C28_Witness ==
    \E h \in Handlers, c \in Callers :
        /\ hpc[h] = "write_exit_code"
        /\ hloc[h].job # c
        /\ Constructed(c)
        /\ IsRegistered(c)
        /\ should_block[c]

\* C30: with a runtime that reports one process id for a job, to the job
\* wait and to the callback, the callback's check of the record's pid never
\* fails, whichever of the caller and the callback writes the pid first, and
\* the pid of a completed record and of a returned blocking call is that
\* process id.
C30_PidWritersAgree ==
    /\ \A h \in Handlers : hpc[h] = "check_pid" => ~PidHasChanged(h)
    /\ \A c \in Callers : jobs[c].done_evt => jobs[c].pid = ProcessId(c)
    /\ \A c \in Callers :
          (cpc[c] = "returned" /\ should_block[c]) =>
              /\ jobs[c].pid = ProcessId(c)
              /\ result[c][1] = ProcessId(c)

\* C30 witness: the callback is at its check of the pid after the caller has
\* written a pid that is not zero into the record.
C30_Witness ==
    \E h \in Handlers, c \in Callers :
        /\ hpc[h] = "check_pid"
        /\ hloc[h].job = c
        /\ cpc[c] = "wait"
        /\ Truthy(jobs[c].pid)

\* C29: under fair scheduling, with one completion event per job and a
\* property fetch that succeeds, every registered record is removed from the
\* registry and has its signal set in the end, for blocking calls and for
\* non-blocking ones, and in the end the registry is empty for good.
C29_EveryRecordCompleted ==
    /\ \A c \in Callers :
          (Constructed(c) /\ IsRegistered(c)) ~> IsCompleted(c)
    /\ <>[](\A t \in Tokens : ~Registered(t))

\* C29 witness: both calls have returned, one blocking and one not, every
\* record is completed and the registry is empty.
C29_Witness ==
    /\ \A c \in Callers : cpc[c] = "returned" /\ IsCompleted(c)
    /\ \E b, c \in Callers : should_block[b] /\ ~should_block[c]
    /\ \A t \in Tokens : ~Registered(t)

\* C21: every native handle the program has got is released exactly once
\* over the life of its wrappers, explicitly or at destruction: never more
\* often than the program got it, and as often as it got it once no live
\* wrapper holds it, the failed kind check and both paths of get_parent
\* included.
C21_ReleasedExactlyOnce ==
    \A h \in NativeHandles :
        /\ releases[h] <= acquired[h]
        /\ (AtRest /\ \A i \in 1..Len(wrappers) :
                          wrappers[i].handle = h => ~wrappers[i].alive)
              => releases[h] = acquired[h]

\* C22: constructing a VixVM succeeds exactly when the handle's native type
\* is VM, and a VixSnapshot exactly when it is SNAPSHOT; otherwise the
\* constructor raises, and no operation ever runs on, or returns, a wrapper
\* whose constructor raised.
C22_KindChecked ==
    /\ \A i \in 1..Len(wrappers) :
          /\ wrappers[i].cls = "VixVM"
                => (wrappers[i].ok <=> GetType(wrappers[i].handle) = "VM")
          /\ wrappers[i].cls = "VixSnapshot"
                => (wrappers[i].ok <=> GetType(wrappers[i].handle) = "SNAPSHOT")
    /\ sop.self # 0 => wrappers[sop.self].ok
    /\ sop.outcome = "wrapper" => wrappers[sop.value].ok

C22_Witness ==
    \E i, j, k \in 1..Len(wrappers) :
        /\ wrappers[i].cls = "VixVM" /\ ~wrappers[i].ok
        /\ wrappers[j].cls = "VixSnapshot" /\ ~wrappers[j].ok
        /\ wrappers[k].cls = "VixVM" /\ wrappers[k].ok

\* C23: in each of the seven snapshot operations a native call that returns
\* a code other than VIX_OK is followed by nothing but the raise of VixError
\* with that same code: no wrapper is built, no result is returned, no
\* handle changes hands, and the native call is made once per operation.
C23_NativeErrorRaisedOnce ==
    /\ [](/\ sop.calls <= 1
          /\ sop.outcome = "raised" => sop.code # VIX_OK /\ sop.value = sop.code
          /\ sop.pc = "done" /\ sop.code # VIX_OK => sop.outcome = "raised")
    /\ [][sop.pc = "called" /\ sop.code # VIX_OK
             => /\ sop'.pc = "done"
                /\ sop'.outcome = "raised"
                /\ sop'.value = sop.code
                /\ sop'.calls = 1
                /\ sop'.op = sop.op
                /\ wrappers' = wrappers
                /\ acquired' = acquired
                /\ releases' = releases]_vars

C23_Witness ==
    /\ sop.op = "get_parent"
    /\ sop.pc = "done"
    /\ sop.outcome = "raised"
    /\ sop.value = VIX_E_OUT_OF_MEMORY
    /\ sop.calls = 1

\* C24: get_file_info and get_shared_folder_state return a result exactly
\* when the job succeeded and the property fetch gave one row, and the
\* result is built from that row; with no row or more than one row the
\* operation fails and returns nothing.
C24_SingleRowOrFail ==
    lop.op \in {"get_file_info", "get_shared_folder_state"} =>
        /\ lop.outcome = "entry" <=> (lop.code = VIX_OK /\ Len(lop.rows) = 1)
        /\ lop.outcome # "entry" =>
              lop.outcome \in {"assert", "raised"} /\ lop.value = << >>
        /\ lop.outcome = "entry" =>
              lop.value = <<IF lop.op = "get_file_info"
                               THEN FileInfoEntry(lop.rows[1])
                               ELSE FolderEntry(lop.rows[1])>>

C24_Witness ==
    /\ lop.op = "get_shared_folder_state"
    /\ lop.code = VIX_OK
    /\ Len(lop.rows) = 2
    /\ lop.outcome = "assert"

\* C25: dir_list and proc_list return one entry per result row, entry i
\* built from row i, for every row sequence, the empty one included.
C25_ListInBatchOrder ==
    lop.op \in {"dir_list", "proc_list"} /\ lop.code = VIX_OK =>
        /\ lop.outcome = "list"
        /\ Len(lop.value) = Len(lop.rows)
        /\ \A i \in 1..Len(lop.rows) :
              lop.value[i] = IF lop.op = "dir_list"
                                THEN DirEntry(lop.rows[i])
                                ELSE ProcEntry(lop.rows[i])

C25_Witness ==
    /\ lop.op = "dir_list"
    /\ lop.outcome = "list"
    /\ Len(lop.rows) = 2
    /\ lop.rows[1] # lop.rows[2]
    /\ Len(lop.value) = 2

====
